---- MODULE Spec2Model ----
(***************************************************************************)
(* Model of the image2excel task orchestration engine:                     *)
(*   backend/app/image2excel/Task.py         (Image2ExcelTask)             *)
(*   backend/app/image2excel/TaskExecutor.py (TaskExecutor)                *)
(*   backend/app/image2excel/TaskManager.py  (Image2ExcelTaskManager,      *)
(*                                            AsyncioEventLoopThread)      *)
(*                                                                         *)
(* Threads of the program:                                                 *)
(*   - the caller of the synchronous Manager API,                          *)
(*   - the workers of the ThreadPoolExecutor, which run _run_async for the *)
(*     coroutines create_task and start_task submit,                       *)
(*   - the event-loop thread, which runs one coroutine at a time until it  *)
(*     returns or suspends at an await that really yields.                 *)
(*                                                                         *)
(* Spec      the Manager driven by one caller (API calls in sequence), the *)
(*           pool and the event loop running asynchronously.               *)
(* RaceSpec  create_task and delete_task called by several caller threads  *)
(*           at once, at the granularity of their registry accesses.       *)
(* FairSpec  Spec with the event loop running each run() to its end.       *)
(* PromptSpec  TaskExecutor._generate_correction_prompt on bounded records. *)
(* HookSpec  Spec with an update hook that can raise.                      *)
(* ExecutorSpec  one TaskExecutor, its methods called in any order.         *)
(* RegistrySpec  create_task and delete_task called one after the other.    *)
(* ShutdownSpec  shutdown() against the pool workers and the loop thread.   *)
(***************************************************************************)
EXTENDS Integers, Sequences, FiniteSets, TLC

\* ---------------------------------------------------------------- bounds
MaxTasks == 1          \* create_task calls of Spec (task ids 1..MaxTasks)
MaxStarts == 2         \* start_task calls accepted in a run of the model
NThreads == 2          \* caller threads of RaceSpec
MaxRaceTasks == 2      \* create_task calls of RaceSpec
MaxText == 2        \* longest text of an IterationResult field in PromptSpec
MaxCalls == 4       \* calls of the TaskExecutor's methods in ExecutorSpec

\* ------------------------------------------------------ program constants
MaxIterations == 3     \* TaskExecutor.__init__(max_iterations=3)

Users == {"u1", "u2"}
Owners == {"u1"}        \* the user who creates tasks in Spec; every user calls
TaskIds == 1..MaxTasks
Threads == 1..NThreads

\* TaskStatus (Task.py 21-30)
TaskStatus ==
  {"CREATED", "INITIALIZING", "RUNNING", "PAUSED", "COMPLETED", "FAILED", "CANCELLED"}
Terminal == {"COMPLETED", "FAILED", "CANCELLED"}

VARIABLES
  \* ---- Image2ExcelTaskManager
  tasks,       \* _tasks: username -> inner dict (identity and keys), or NoDict
  nextId,      \* the next fresh task id (uuid4 in the code)
  nextDict,    \* the next fresh inner-dict identity
  pool,        \* _run_async calls submitted to the ThreadPoolExecutor whose
               \* coroutine has not begun on the loop (a bag of work items)
  loop,        \* the coroutine the event-loop thread is executing, or Idle
  caller,      \* the caller thread of Spec: idle, or blocked in _run_async
               \* for the coroutine it handed to the loop
  starts,      \* start_task calls accepted so far
  \* ---- Image2ExcelTask, one per task id
  username,    \* task.username
  status,      \* task._status
  cancelEv,    \* task._cancellation_event.is_set()
  executor,    \* task._executor: 0 is None, 1 a TaskExecutor
  sysPrompt,   \* task._system_prompt is set
  error,       \* task._error
  meta,        \* task._metadata: total_iterations, current_iteration, error_count
  history,     \* task._executor.iteration_history: key -> IterationResult or NoRecord
  \* ---- observation (a history variable, read by no action)
  active,      \* run() invocations of the task begun and not yet returned
  \* ---- RaceSpec
  thr,         \* per caller thread: the call in progress and its position
  raised,      \* threads whose call raised (KeyError)
  inserted,    \* task ids whose create_task returned
  removed,     \* task ids whose delete_task returned True
  \* ---- PromptSpec
  iteration_result,  \* the IterationResult handed to _generate_correction_prompt
  prompt,            \* the prompt it returned, or NoPrompt before the call
  \* ---- HookSpec
  escaped,     \* the coroutines out of which an exception of the hook propagated
  \* ---- ExecutorSpec: one TaskExecutor
  iteration_history,  \* self.iteration_history: key -> IterationResult or NoRecord
  current_iteration,  \* self.current_iteration
  returned,           \* the method called last and the ExecutionState it returned
  generated,          \* call_api calls that returned CODE_GENERATED so far
  calls,              \* method calls made so far
  pd_module,          \* the pandas module object every exec receives:
                      \* "clean" as imported, "marked" once code set an
                      \* attribute of it
  \* ---- ShutdownSpec: the threads at the granularity of run_coroutine
  workers,     \* per submitted work item: where its pool worker is
  ready,       \* the event loop's queue of callbacks, oldest first
  ntodo,       \* callbacks left in the loop's current iteration
  stopping,    \* loop.stop() has run
  alive,       \* the event-loop thread is in run_forever
  running,     \* AsyncioEventLoopThread._running.is_set()
  shut         \* the caller of shutdown(): its position, tasks left to cancel

mgrVars == <<tasks, nextId, nextDict, pool, loop, caller, starts>>
taskVars == <<username, status, cancelEv, executor, sysPrompt, error, meta, history>>
obsVars == <<active>>
raceVars == <<thr, raised, inserted, removed>>
sdVars == <<workers, ready, ntodo, stopping, alive, running, shut>>
promptVars == <<iteration_result, prompt>>
hookVars == <<escaped>>
execVars == <<iteration_history, current_iteration, returned, generated, calls, pd_module>>
\* what no action of Spec changes
restVars == <<raceVars, sdVars, promptVars, hookVars, execVars>>
vars == <<mgrVars, taskVars, obsVars, raceVars, sdVars, promptVars, hookVars, execVars>>

\* ------------------------------------------------------------- registry
\* self._tasks: Dict[str, Dict[str, TaskRecord]].  An inner dict is an object:
\* id tells one inner dict from a later one made for the same user.
NoDict == [id |-> 0, keys |-> {}]

\* A lookup that finds the task id under any owner
ValidateAnyOwner(u, t) == \E v \in Users : tasks[v].id > 0 /\ t \in tasks[v].keys

\* _validate_task: username in self._tasks and task_id in self._tasks[username]
ValidateTask(u, t) == tasks[u].id > 0 /\ t \in tasks[u].keys

\* create_task, lines 122-124, as one caller executes them
RegistryInsert(reg, u, t, d) ==
  LET r1 == IF reg[u].id = 0 THEN [reg EXCEPT ![u] = [id |-> d, keys |-> {}]] ELSE reg
  IN  [r1 EXCEPT ![u].keys = @ \cup {t}]

\* A delete_task that leaves the owner's emptied mapping in the registry
RegistryDeleteKeepsOwner(reg, u, t) == [reg EXCEPT ![u].keys = @ \ {t}]

\* delete_task, lines 243-245, as one caller executes them
RegistryDelete(reg, u, t) ==
  LET r1 == [reg EXCEPT ![u].keys = @ \ {t}]
  IN  IF r1[u].keys = {} THEN [r1 EXCEPT ![u] = NoDict] ELSE r1

\* ------------------------------------------------- pool and event loop
WorkItems == [kind : {"init", "run"}, task : TaskIds]

Idle == [kind |-> "none", task |-> 0, by |-> "none", pc |-> "idle"]
CallerIdle == [op |-> "none", user |-> "none", task |-> 0, stage |-> "idle"]

\* A loop that would start a scheduled coroutine while another one is still
\* executing (what a run() that suspended at an await would allow)
LoopAlwaysFree == TRUE

\* The event-loop thread runs one callback at a time (loop.run_forever):
\* a scheduled coroutine starts only when no other one is executing.
LoopIdle == loop = Idle

\* ------------------------------------------------------ Image2ExcelTask
\* A TaskMetadata whose counter starts beyond the iteration budget
OverrunMeta ==
  [total_iterations |-> 0, current_iteration |-> MaxIterations + 1, error_count |-> 0]

\* A metadata record that counts a generation before any iteration
MiscountedMeta ==
  [total_iterations |-> 1, current_iteration |-> 0, error_count |-> 0]

\* TaskMetadata (Task.py 33-41), the defaults of a new task
NewMeta == [total_iterations |-> 0, current_iteration |-> 0, error_count |-> 0]

\* IterationResult (TaskExecutor.py 23-30); NoRecord: the key is absent
HistoryKeys == 0..MaxIterations
NoRecord == [generated_code |-> "absent"]
EmptyHistory == [k \in HistoryKeys |-> NoRecord]

\* _update_status: self._status = new_status (the timestamp and the hook
\* call are not part of the state modelled here)
UpdateStatus(t, s) == [status EXCEPT ![t] = s]

\* run(), line 149: not self._executor or not self._system_prompt
NeedsInitialize(t) == executor[t] = 0 \/ ~sysPrompt[t]

\* run(), lines 157-160: the while condition
LoopCondition(t) ==
  meta[t].current_iteration < MaxIterations /\ ~cancelEv[t]

\* An Optional[str]: None, or a text (a sequence of tokens, "" being <<>>)
None == [present |-> FALSE, text |-> <<>>]
Some(x) == [present |-> TRUE, text |-> x]

\* Python truthiness of an Optional[str]: neither None nor ""
Truthy(o) == o.present /\ o.text # <<>>

\* No IterationResult is at hand (outside PromptSpec); no prompt built yet
NoResult == [error_message |-> None, user_feedback |-> None, execution_output |-> None]
NoPrompt == <<>>

\* The Manager after construction, no task created yet
ManagerInit ==
  /\ tasks = [u \in Users |-> NoDict]
  /\ nextId = 1
  /\ nextDict = 1
  /\ pool = [w \in WorkItems |-> 0]
  /\ loop = Idle
  /\ caller = CallerIdle
  /\ starts = 0
  /\ username = [t \in TaskIds |-> "none"]
  /\ status = [t \in TaskIds |-> "CREATED"]
  /\ cancelEv = [t \in TaskIds |-> FALSE]
  /\ executor = [t \in TaskIds |-> 0]
  /\ sysPrompt = [t \in TaskIds |-> FALSE]
  /\ error = [t \in TaskIds |-> "none"]
  /\ meta = [t \in TaskIds |-> NewMeta]
  /\ history = [t \in TaskIds |-> EmptyHistory]
  /\ active = [t \in TaskIds |-> 0]
  /\ thr = [i \in Threads |-> [op |-> "none", pc |-> "idle", user |-> "none", task |-> 0, ref |-> 0]]
  /\ raised = {}
  /\ inserted = {}
  /\ removed = {}

\* The threads after Image2ExcelTaskManager.__init__ (TaskManager.py 71-80):
\* the loop thread is in run_forever with _running set (37-42, 75-76), the
\* pool has no work, shutdown() has not been called
NotShutDown == [pc |-> "idle", todo |-> {}, waits |-> 0]
ThreadsInit ==
  /\ workers = [w \in WorkItems |-> "none"]
  /\ ready = <<>>
  /\ ntodo = 0
  /\ stopping = FALSE
  /\ alive = TRUE
  /\ running = TRUE
  /\ shut = NotShutDown

\* TaskExecutor.__init__ (TaskExecutor.py 57-60); nothing called yet
NotCalled == [op |-> "none", state |-> "none"]
ExecutorInit ==
  /\ iteration_history = EmptyHistory
  /\ current_iteration = 0
  /\ returned = NotCalled
  /\ generated = 0
  /\ calls = 0
  /\ pd_module = "clean"

Init ==
  /\ ManagerInit
  /\ iteration_result = NoResult
  /\ prompt = NoPrompt
  /\ escaped = {}
  /\ ExecutorInit
  /\ ThreadsInit

\* ------------------------------------------- Manager API (one caller)
\* create_task (86-129): build the task, register it, submit initialize()
CreateTask(u) ==
  /\ caller = CallerIdle
  /\ nextId <= MaxTasks
  /\ tasks' = RegistryInsert(tasks, u, nextId, nextDict)
  /\ nextDict' = IF tasks[u].id = 0 THEN nextDict + 1 ELSE nextDict
  /\ username' = [username EXCEPT ![nextId] = u]
  /\ pool' = [pool EXCEPT ![[kind |-> "init", task |-> nextId]] = @ + 1]
  /\ nextId' = nextId + 1
  /\ UNCHANGED <<loop, caller, starts>>
  /\ UNCHANGED <<status, cancelEv, executor, sysPrompt, error, meta, history>>
  /\ UNCHANGED <<obsVars, restVars>>

\* start_task (131-147): what the call returns
StartTaskResult(u, t) == ValidateTask(u, t)

\* start_task (131-147): submit run() to the pool
StartTask(u, t) ==
  /\ caller = CallerIdle
  /\ starts < MaxStarts
  /\ IF StartTaskResult(u, t)
       THEN /\ pool' = [pool EXCEPT ![[kind |-> "run", task |-> t]] = @ + 1]
            /\ starts' = starts + 1
       ELSE UNCHANGED <<pool, starts>>
  /\ UNCHANGED <<tasks, nextId, nextDict, loop, caller>>
  /\ UNCHANGED <<taskVars, obsVars, restVars>>

\* cancel_task (149-165): what the call returns
CancelTaskResult(u, t) == ValidateTask(u, t)

\* A cancel_task that executes the body of cancel() itself, in the caller's
\* thread, in place of handing the coroutine to the loop
CancelTaskInline(u, t) ==
  /\ caller = CallerIdle
  /\ IF CancelTaskResult(u, t)
       THEN /\ cancelEv' = [cancelEv EXCEPT ![t] = TRUE]
            /\ status' = UpdateStatus(t, "CANCELLED")
       ELSE UNCHANGED <<cancelEv, status>>
  /\ UNCHANGED <<tasks, nextId, nextDict, pool, loop, caller, starts>>
  /\ UNCHANGED <<username, executor, sysPrompt, error, meta, history>>
  /\ UNCHANGED <<obsVars, restVars>>

\* cancel_task (149-165): run cancel() on the loop and wait for it
CancelTask(u, t) ==
  /\ caller = CallerIdle
  /\ IF CancelTaskResult(u, t)
       THEN caller' = [op |-> "cancel", user |-> u, task |-> t, stage |-> "waiting"]
       ELSE UNCHANGED caller
  /\ UNCHANGED <<tasks, nextId, nextDict, pool, loop, starts>>
  /\ UNCHANGED <<taskVars, obsVars, restVars>>

\* delete_task, line 240: the test that decides whether the task is
\* cancelled before it is removed
MustCancelFirst(t) == status[t] = "RUNNING"

\* delete_task (224-247): what the call returns
DeleteTaskResult(u, t) == ValidateTask(u, t)

\* delete_task (224-247): cancel first when the status reads RUNNING
DeleteTask(u, t) ==
  /\ caller = CallerIdle
  /\ IF ~DeleteTaskResult(u, t)
       THEN UNCHANGED <<tasks, caller>>
       ELSE IF MustCancelFirst(t)
         THEN /\ caller' = [op |-> "delete", user |-> u, task |-> t, stage |-> "waiting"]
              /\ UNCHANGED tasks
         ELSE /\ tasks' = RegistryDelete(tasks, u, t)
              /\ UNCHANGED caller
  /\ UNCHANGED <<nextId, nextDict, pool, loop, starts>>
  /\ UNCHANGED <<taskVars, obsVars, restVars>>

\* delete_task, lines 243-247, after the inner cancel_task has returned
DeleteFinish ==
  /\ caller.op = "delete" /\ caller.stage = "done"
  /\ tasks' = RegistryDelete(tasks, caller.user, caller.task)
  /\ caller' = CallerIdle
  /\ UNCHANGED <<nextId, nextDict, pool, loop, starts>>
  /\ UNCHANGED <<taskVars, obsVars, restVars>>

\* get_task_status (167-195): what the call returns; NotFound is None
NotFound == [found |-> FALSE]
GetTaskStatusResult(u, t) ==
  IF ValidateTask(u, t)
    THEN [status |-> status[t], metadata |-> meta[t], error |-> error[t]]
    ELSE NotFound

\* get_task_status (167-195) reads and changes nothing
GetTaskStatus(u, t) ==
  /\ caller = CallerIdle
  /\ UNCHANGED vars

\* provide_feedback (249-266): what the call returns
ProvideFeedbackResult(u, t) == ValidateTask(u, t)

\* provide_feedback (249-266): run task.provide_feedback on the loop and
\* wait for it
ProvideFeedback(u, t) ==
  /\ caller = CallerIdle
  /\ IF ProvideFeedbackResult(u, t)
       THEN caller' = [op |-> "feedback", user |-> u, task |-> t, stage |-> "waiting"]
       ELSE UNCHANGED caller
  /\ UNCHANGED <<tasks, nextId, nextDict, pool, loop, starts>>
  /\ UNCHANGED <<taskVars, obsVars, restVars>>

\* pause() and resume() (Task.py 233-242) have no Manager method: whoever
\* holds the task object runs the coroutine on the Manager's loop through
\* run_coroutine (50-63) and waits for it.  kind is "pause" or "resume".
TaskCoroutine(t, kind) ==
  /\ caller = CallerIdle
  /\ t < nextId
  /\ caller' = [op |-> kind, user |-> username[t], task |-> t, stage |-> "waiting"]
  /\ UNCHANGED <<tasks, nextId, nextDict, pool, loop, starts>>
  /\ UNCHANGED <<taskVars, obsVars, restVars>>

\* ----------------------------------------- coroutines on the event loop
\* A pool worker runs _run_async -> run_coroutine (50-63) for a submitted
\* item: asyncio.run_coroutine_threadsafe schedules the coroutine on the loop
\* and the worker waits for its result; the caller of cancel_task does the
\* same in its own thread.  The loop runs the scheduled coroutines one at a
\* time; which of the submitted items a worker schedules first is decided by
\* the race of the threads, so any of them can be the next to begin.  The
\* pool has 4 workers (max_workers=4, line 80): with up to 4 items
\* outstanding none waits for a worker; with more, the pool serves the
\* oldest first, and the model allows every order, those of the pool
\* included.
PoolNext(kind, t) == LoopIdle /\ pool[[kind |-> kind, task |-> t]] > 0

\* The coroutine the caller handed to the loop is the next to begin
CallerNext(kinds) ==
  LoopIdle /\ caller.stage = "waiting" /\ caller.op \in kinds

\* The worker's coroutine has begun
Taken(kind, t) == [pool EXCEPT ![[kind |-> kind, task |-> t]] = @ - 1]

\* The thread waiting in future.result() (run_coroutine, line 63) for a
\* coroutine that has finished goes on: cancel_task and the holder of a
\* pause() or resume() return to their caller, delete_task continues with
\* line 243
Resumed ==
  IF caller.op = "delete" THEN [caller EXCEPT !.stage = "done"] ELSE CallerIdle

\* The coroutine returns: the loop is free, and the thread waiting for it
\* can go on
Returns(by) ==
  /\ loop' = Idle
  /\ caller' = IF by = "caller" THEN Resumed ELSE caller

\* initialize(), line 123
InitializeBegin ==
  \E t \in TaskIds :
    /\ PoolNext("init", t)
    /\ pool' = Taken("init", t)
    /\ status' = UpdateStatus(t, "INITIALIZING")
    /\ loop' = [kind |-> "init", task |-> t, by |-> "pool", pc |-> "init"]
    /\ UNCHANGED <<tasks, nextId, nextDict, caller, starts>>
    /\ UNCHANGED <<username, cancelEv, executor, sysPrompt, error, meta, history>>
    /\ UNCHANGED <<obsVars, restVars>>

\* An initialize() whose handler sets FAILED without storing the error
InitializeBodySilent(t, ok) ==
  /\ sysPrompt' = [sysPrompt EXCEPT ![t] = TRUE]
  /\ IF ok
       THEN /\ executor' = [executor EXCEPT ![t] = 1]
            /\ history' = [history EXCEPT ![t] = EmptyHistory]
       ELSE UNCHANGED <<executor, history>>
  /\ UNCHANGED error

\* initialize(), lines 126-142, up to its last status write.  ok:
\* ImageUtils.from_file could read the image.  The awaits of these lines
\* never yield to the loop (from_file awaits nothing), so no other coroutine
\* runs in between.  A new TaskExecutor starts with an empty
\* iteration_history.
InitializeBody(t, ok) ==
  /\ sysPrompt' = [sysPrompt EXCEPT ![t] = TRUE]
  /\ IF ok
       THEN /\ executor' = [executor EXCEPT ![t] = 1]
            /\ history' = [history EXCEPT ![t] = EmptyHistory]
            /\ UNCHANGED error
       ELSE /\ error' = [error EXCEPT ![t] = "init"]
            /\ UNCHANGED <<executor, history>>

InitializeEnd ==
  /\ loop.kind = "init" /\ loop.pc = "init"
  /\ \E ok \in BOOLEAN :
       /\ InitializeBody(loop.task, ok)
       /\ status' = UpdateStatus(loop.task, IF ok THEN "CREATED" ELSE "FAILED")
  /\ Returns(loop.by)
  /\ UNCHANGED <<tasks, nextId, nextDict, pool, starts>>
  /\ UNCHANGED <<username, cancelEv, meta>>
  /\ UNCHANGED <<active, restVars>>

\* run(), lines 149-154: initialize first when the executor or the system
\* prompt is missing (line 150 runs initialize() inline; its first
\* statement is line 123), else go to RUNNING
RunStart(t, by) ==
  /\ active' = [active EXCEPT ![t] = @ + 1]
  /\ IF NeedsInitialize(t)
       THEN /\ status' = UpdateStatus(t, "INITIALIZING")
            /\ loop' = [kind |-> "run", task |-> t, by |-> by, pc |-> "run_init"]
       ELSE /\ status' = UpdateStatus(t, "RUNNING")
            /\ loop' = [kind |-> "run", task |-> t, by |-> by, pc |-> "loop_top"]

\* the run() coroutine start_task submitted begins
RunBegin ==
  \E t \in TaskIds :
    /\ PoolNext("run", t)
    /\ pool' = Taken("run", t)
    /\ RunStart(t, "pool")
    /\ UNCHANGED <<tasks, nextId, nextDict, caller, starts>>
    /\ UNCHANGED <<username, cancelEv, executor, sysPrompt, error, meta, history>>
    /\ UNCHANGED restVars

\* run() returns
RunReturns(t) ==
  /\ active' = [active EXCEPT ![t] = @ - 1]
  /\ Returns(loop.by)

\* run(), lines 150-154: the body of the inline initialize(), then the
\* test of line 151.  A failed initialize() left FAILED (line 141) and run()
\* returns; a successful one left CREATED (line 136), which line 154
\* replaces by RUNNING at once.
RunInitialize ==
  /\ loop.kind = "run" /\ loop.pc = "run_init"
  /\ \E ok \in BOOLEAN :
       /\ InitializeBody(loop.task, ok)
       /\ IF ok
            THEN /\ status' = UpdateStatus(loop.task, "RUNNING")
                 /\ loop' = [loop EXCEPT !.pc = "loop_top"]
                 /\ UNCHANGED <<active, caller>>
            ELSE /\ status' = UpdateStatus(loop.task, "FAILED")
                 /\ RunReturns(loop.task)
  /\ UNCHANGED <<tasks, nextId, nextDict, pool, starts>>
  /\ UNCHANGED <<username, cancelEv, meta>>
  /\ UNCHANGED restVars

\* A pass of the loop outside any try block: the exception of line 178
\* leaves run(), which has written RUNNING and nothing since
RunLoopBodyUnhandled ==
  /\ loop.kind = "run" /\ loop.pc = "loop_top"
  /\ LoopCondition(loop.task)
  /\ escaped' = escaped \cup {"run"}
  /\ RunReturns(loop.task)
  /\ UNCHANGED <<tasks, nextId, nextDict, pool, starts>>
  /\ UNCHANGED taskVars
  /\ UNCHANGED <<raceVars, sdVars, promptVars, execVars>>

\* run(), one pass of the while loop that is entered: lines 157-178 and
\* 224-226.  The prompt is chosen (161-175, no state changes), then line 178
\* executes  self.current_iteration += 1.  Image2ExcelTask defines no
\* attribute current_iteration (the counter is
\* self._metadata.current_iteration; the class has only the properties
\* status, metadata and error), so reading it raises AttributeError before
\* call_api of line 179 is reached.  The handler of line 224 records the
\* error and sets FAILED, and run() returns.
RunLoopBody ==
  /\ loop.kind = "run" /\ loop.pc = "loop_top"
  /\ LoopCondition(loop.task)
  /\ error' = [error EXCEPT ![loop.task] = "exec"]
  /\ status' = UpdateStatus(loop.task, "FAILED")
  /\ RunReturns(loop.task)
  /\ UNCHANGED <<tasks, nextId, nextDict, pool, starts>>
  /\ UNCHANGED <<username, cancelEv, executor, sysPrompt, meta, history>>
  /\ UNCHANGED restVars

\* A loop exit that writes no status
StatusKept(t) == status[t]

\* run(), lines 216-222: the status the loop's exit leaves
ExitStatus(t) ==
  IF cancelEv[t] THEN "CANCELLED"
  ELSE IF meta[t].current_iteration >= MaxIterations THEN "FAILED"
  ELSE status[t]

\* run(), lines 157-160 evaluated to false, then 216-222
RunLoopExit ==
  /\ loop.kind = "run" /\ loop.pc = "loop_top"
  /\ ~LoopCondition(loop.task)
  /\ status' = UpdateStatus(loop.task, ExitStatus(loop.task))
  /\ RunReturns(loop.task)
  /\ UNCHANGED <<tasks, nextId, nextDict, pool, starts>>
  /\ UNCHANGED <<username, cancelEv, executor, sysPrompt, error, meta, history>>
  /\ UNCHANGED restVars

\* cancel(), lines 230-231: set the event, then write the status
Cancel ==
  /\ CallerNext({"cancel", "delete"})
  /\ cancelEv' = [cancelEv EXCEPT ![caller.task] = TRUE]
  /\ status' = UpdateStatus(caller.task, "CANCELLED")
  /\ caller' = Resumed
  /\ UNCHANGED <<tasks, nextId, nextDict, pool, loop, starts>>
  /\ UNCHANGED <<username, executor, sysPrompt, error, meta, history>>
  /\ UNCHANGED <<obsVars, restVars>>

\* pause(), lines 235-236
Pause ==
  /\ CallerNext({"pause"})
  /\ status' = IF status[caller.task] = "RUNNING"
                 THEN UpdateStatus(caller.task, "PAUSED")
                 ELSE status
  /\ caller' = Resumed
  /\ UNCHANGED <<tasks, nextId, nextDict, pool, loop, starts>>
  /\ UNCHANGED <<username, cancelEv, executor, sysPrompt, error, meta, history>>
  /\ UNCHANGED <<obsVars, restVars>>

\* resume(), lines 240-242: on PAUSED write RUNNING and run run() inline
\* (its first status write, line 123 or 154, follows at once); else return
Resume ==
  /\ CallerNext({"resume"})
  /\ IF status[caller.task] = "PAUSED"
       THEN /\ RunStart(caller.task, "caller")
            /\ UNCHANGED caller
       ELSE /\ caller' = Resumed
            /\ UNCHANGED <<status, loop, active>>
  /\ UNCHANGED <<tasks, nextId, nextDict, pool, starts>>
  /\ UNCHANGED <<username, cancelEv, executor, sysPrompt, error, meta, history>>
  /\ UNCHANGED restVars

\* Image2ExcelTask.provide_feedback (251-254): process_feedback is called
\* only with an executor and a current_iteration above 0; it stores the
\* feedback in the record of that iteration when there is one
\* (TaskExecutor.py 178-184)
FeedbackStored(t) ==
  /\ executor[t] # 0
  /\ meta[t].current_iteration > 0
  /\ history[t][meta[t].current_iteration] # NoRecord

Feedback ==
  /\ CallerNext({"feedback"})
  /\ history' = IF FeedbackStored(caller.task)
                  THEN [history EXCEPT ![caller.task][meta[caller.task].current_iteration].user_feedback = Some(<<"a">>)]
                  ELSE history
  /\ caller' = Resumed
  /\ UNCHANGED <<tasks, nextId, nextDict, pool, loop, starts>>
  /\ UNCHANGED <<username, status, cancelEv, executor, sysPrompt, error, meta>>
  /\ UNCHANGED <<obsVars, restVars>>

Next ==
  \/ \E u \in Owners : CreateTask(u)
  \/ \E u \in Users, t \in TaskIds : StartTask(u, t)
  \/ \E u \in Users, t \in TaskIds : CancelTask(u, t)
  \/ \E u \in Users, t \in TaskIds : DeleteTask(u, t)
  \/ \E u \in Users, t \in TaskIds : GetTaskStatus(u, t)
  \/ \E u \in Users, t \in TaskIds : ProvideFeedback(u, t)
  \/ DeleteFinish
  \/ \E t \in TaskIds : TaskCoroutine(t, "pause")
  \/ \E t \in TaskIds : TaskCoroutine(t, "resume")
  \/ InitializeBegin
  \/ InitializeEnd
  \/ RunBegin
  \/ RunInitialize
  \/ RunLoopBody
  \/ RunLoopExit
  \/ Cancel
  \/ Pause
  \/ Resume
  \/ Feedback

Spec == Init /\ [][Next]_vars

\* The event-loop thread runs the callback it has begun to its end
\* (loop.run_forever, TaskManager.py 37-42): a run() that has begun takes
\* its next step.  Every collaborator call returns.
RunProgress ==
  /\ WF_vars(RunInitialize)
  /\ WF_vars(RunLoopBody)
  /\ WF_vars(RunLoopExit)

FairSpec == Init /\ [][Next]_vars /\ RunProgress

\* ------------------------------------------------------------------------
\* RaceSpec: create_task and delete_task called from several threads.
\* Nothing in the Manager serialises the calls (there is no lock around
\* self._tasks), so the threads interleave between the registry accesses of
\* lines 122-124 and 236-245.  The task's status never reads RUNNING here
\* (no start_task is called), so delete_task takes no cancel_task branch.
\* The caller threads are threads in which Image2ExcelTask.__init__ can run
\* (asyncio.get_event_loop(), Task.py lines 75-76, finds a loop).
\* ------------------------------------------------------------------------
RaceIds == 1..MaxRaceTasks
\* what the calls of RaceSpec leave alone
specVars == <<pool, loop, caller, starts, taskVars, obsVars, sdVars, promptVars, hookVars, execVars>>

ThreadIdle == [op |-> "none", pc |-> "idle", user |-> "none", task |-> 0, ref |-> 0]

\* The call of thread i ends, returning or raising
ThreadEnds(i, raises) ==
  /\ thr' = [thr EXCEPT ![i] = ThreadIdle]
  /\ raised' = IF raises THEN raised \cup {i} ELSE raised

\* create_task, lines 105-120: a fresh id and the task object
RaceCreateCall(i, u) ==
  /\ thr[i] = ThreadIdle
  /\ nextId <= MaxRaceTasks
  /\ thr' = [thr EXCEPT ![i] = [op |-> "create", pc |-> "check", user |-> u, task |-> nextId, ref |-> 0]]
  /\ nextId' = nextId + 1
  /\ UNCHANGED <<tasks, nextDict, raised, inserted, removed>>
  /\ UNCHANGED specVars

\* line 122: if username not in self._tasks
RaceCreateCheck(i) ==
  /\ thr[i].op = "create" /\ thr[i].pc = "check"
  /\ thr' = [thr EXCEPT ![i].pc = IF tasks[thr[i].user].id = 0 THEN "new" ELSE "lookup"]
  /\ UNCHANGED <<tasks, nextId, nextDict, raised, inserted, removed>>
  /\ UNCHANGED specVars

\* line 123: self._tasks[username] = {}
RaceCreateNewDict(i) ==
  /\ thr[i].op = "create" /\ thr[i].pc = "new"
  /\ tasks' = [tasks EXCEPT ![thr[i].user] = [id |-> nextDict, keys |-> {}]]
  /\ nextDict' = nextDict + 1
  /\ thr' = [thr EXCEPT ![i].pc = "lookup"]
  /\ UNCHANGED <<nextId, raised, inserted, removed>>
  /\ UNCHANGED specVars

\* line 124, the subscript self._tasks[username]: KeyError when the user's
\* entry is gone, else a reference to the inner dict
RaceCreateLookup(i) ==
  /\ thr[i].op = "create" /\ thr[i].pc = "lookup"
  /\ IF tasks[thr[i].user].id = 0
       THEN ThreadEnds(i, TRUE)
       ELSE /\ thr' = [thr EXCEPT ![i].pc = "store", ![i].ref = tasks[thr[i].user].id]
            /\ UNCHANGED raised
  /\ UNCHANGED <<tasks, nextId, nextDict, inserted, removed>>
  /\ UNCHANGED specVars

\* line 124, the store into the inner dict the thread holds (it reaches the
\* registry only if that dict is still the user's entry), then 127-129
RaceCreateStore(i) ==
  /\ thr[i].op = "create" /\ thr[i].pc = "store"
  /\ tasks' = IF tasks[thr[i].user].id = thr[i].ref
                THEN [tasks EXCEPT ![thr[i].user].keys = @ \cup {thr[i].task}]
                ELSE tasks
  /\ inserted' = inserted \cup {thr[i].task}
  /\ ThreadEnds(i, FALSE)
  /\ UNCHANGED <<nextId, nextDict, removed>>
  /\ UNCHANGED specVars

\* delete_task is called
RaceDeleteCall(i, u, t) ==
  /\ thr[i] = ThreadIdle
  /\ t \in inserted \ removed
  /\ thr' = [thr EXCEPT ![i] = [op |-> "delete", pc |-> "validate", user |-> u, task |-> t, ref |-> 0]]
  /\ UNCHANGED <<tasks, nextId, nextDict, raised, inserted, removed>>
  /\ UNCHANGED specVars

\* line 236 (_validate_task, 270-273); False ends the call
RaceDeleteValidate(i) ==
  /\ thr[i].op = "delete" /\ thr[i].pc = "validate"
  /\ IF ValidateTask(thr[i].user, thr[i].task)
       THEN /\ thr' = [thr EXCEPT ![i].pc = "get"]
            /\ UNCHANGED raised
       ELSE ThreadEnds(i, FALSE)
  /\ UNCHANGED <<tasks, nextId, nextDict, inserted, removed>>
  /\ UNCHANGED specVars

\* line 239: self._tasks[username][task_id].task, KeyError when either key
\* is gone; line 240 reads a status that is not RUNNING
RaceDeleteGet(i) ==
  /\ thr[i].op = "delete" /\ thr[i].pc = "get"
  /\ IF ValidateTask(thr[i].user, thr[i].task)
       THEN /\ thr' = [thr EXCEPT ![i].pc = "del"]
            /\ UNCHANGED raised
       ELSE ThreadEnds(i, TRUE)
  /\ UNCHANGED <<tasks, nextId, nextDict, inserted, removed>>
  /\ UNCHANGED specVars

\* line 243: del self._tasks[username][task_id]
RaceDeleteKey(i) ==
  /\ thr[i].op = "delete" /\ thr[i].pc = "del"
  /\ IF ValidateTask(thr[i].user, thr[i].task)
       THEN /\ tasks' = [tasks EXCEPT ![thr[i].user].keys = @ \ {thr[i].task}]
            /\ thr' = [thr EXCEPT ![i].pc = "empty"]
            /\ UNCHANGED raised
       ELSE /\ ThreadEnds(i, TRUE)
            /\ UNCHANGED tasks
  /\ UNCHANGED <<nextId, nextDict, inserted, removed>>
  /\ UNCHANGED specVars

\* line 244: if not self._tasks[username]; line 247 when it is not empty
RaceDeleteEmpty(i) ==
  /\ thr[i].op = "delete" /\ thr[i].pc = "empty"
  /\ IF tasks[thr[i].user].id = 0
       THEN /\ ThreadEnds(i, TRUE)
            /\ UNCHANGED removed
       ELSE IF tasks[thr[i].user].keys = {}
         THEN /\ thr' = [thr EXCEPT ![i].pc = "deluser"]
              /\ UNCHANGED <<raised, removed>>
         ELSE /\ ThreadEnds(i, FALSE)
              /\ removed' = removed \cup {thr[i].task}
  /\ UNCHANGED <<tasks, nextId, nextDict, inserted>>
  /\ UNCHANGED specVars

\* line 245: del self._tasks[username], whatever the inner dict holds by
\* now; line 247
RaceDeleteUser(i) ==
  /\ thr[i].op = "delete" /\ thr[i].pc = "deluser"
  /\ IF tasks[thr[i].user].id = 0
       THEN /\ ThreadEnds(i, TRUE)
            /\ UNCHANGED <<tasks, removed>>
       ELSE /\ tasks' = [tasks EXCEPT ![thr[i].user] = NoDict]
            /\ removed' = removed \cup {thr[i].task}
            /\ ThreadEnds(i, FALSE)
  /\ UNCHANGED <<nextId, nextDict, inserted>>
  /\ UNCHANGED specVars

RaceNext ==
  \/ \E i \in Threads, u \in Users : RaceCreateCall(i, u)
  \/ \E i \in Threads : RaceCreateCheck(i)
  \/ \E i \in Threads : RaceCreateNewDict(i)
  \/ \E i \in Threads : RaceCreateLookup(i)
  \/ \E i \in Threads : RaceCreateStore(i)
  \/ \E i \in Threads, u \in Users, t \in RaceIds : RaceDeleteCall(i, u, t)
  \/ \E i \in Threads : RaceDeleteValidate(i)
  \/ \E i \in Threads : RaceDeleteGet(i)
  \/ \E i \in Threads : RaceDeleteKey(i)
  \/ \E i \in Threads : RaceDeleteEmpty(i)
  \/ \E i \in Threads : RaceDeleteUser(i)

RaceSpec == Init /\ [][RaceNext]_vars

\* ------------------------------------------------------------------------
\* PromptSpec: TaskExecutor._generate_correction_prompt (TaskExecutor.py
\* 66-91) applied to an IterationResult.  A text is a sequence of tokens;
\* the literal parts of the prompt are tokens of their own and "nl" is the
\* newline, which a field's text can contain as well.
\* ------------------------------------------------------------------------
Chars == {"a", "b", "nl"}
Texts == UNION {[1..n -> Chars] : n \in 0..MaxText}
OptionalTexts == {None} \cup {Some(x) : x \in Texts}

\* IterationResult (TaskExecutor.py 23-30), the fields the prompt reads
IterationResults ==
  [error_message : OptionalTexts,
   user_feedback : OptionalTexts,
   execution_output : {None, Some(<<>>), Some(<<"a">>)}]

\* line 71
PromptHeader == <<"improve", "nl">>
\* lines 73-75
ErrorBlock(r) ==
  IF Truthy(r.error_message)
    THEN <<"nl", "error:", "nl">> \o r.error_message.text \o <<"nl">>
           \o <<"nl", "fix_the_error", "nl">>
    ELSE <<>>
\* lines 77-79
FeedbackBlock(r) ==
  IF Truthy(r.user_feedback)
    THEN <<"nl", "feedback:", "nl">> \o r.user_feedback.text \o <<"nl">>
           \o <<"nl", "follow_the_feedback", "nl">>
    ELSE <<>>
\* An output block that is printed for every output that is not None
OutputBlockIfPresent(r) ==
  IF r.execution_output.present
    THEN <<"nl", "output:", "nl">> \o r.execution_output.text \o <<"nl">>
    ELSE <<>>
\* lines 81-82
OutputBlock(r) ==
  IF Truthy(r.execution_output)
    THEN <<"nl", "output:", "nl">> \o r.execution_output.text \o <<"nl">>
    ELSE <<>>
\* lines 86-89, the four numbered lines: the code produces the correct
\* DataFrame, the columns have fitting types, the data is cleaned and
\* formatted, the result is stored in the variable 'df'
FourRequirements ==
  <<"correct_dataframe", "typed_columns", "cleaned_formatted", "result_in_df">>
\* lines 84-90
PromptFooter ==
  <<"nl", "make_sure", "nl">>
    \o <<FourRequirements[1], "nl", FourRequirements[2], "nl">>
    \o <<FourRequirements[3], "nl", FourRequirements[4], "nl">>

\* A prompt builder that appends the feedback block before the error block
FeedbackFirstPrompt(r) ==
  PromptHeader \o FeedbackBlock(r) \o ErrorBlock(r) \o OutputBlock(r) \o PromptFooter

\* _generate_correction_prompt (66-91)
GenerateCorrectionPrompt(r) ==
  PromptHeader \o ErrorBlock(r) \o FeedbackBlock(r) \o OutputBlock(r) \o PromptFooter

PromptInit ==
  /\ ManagerInit
  /\ iteration_result \in IterationResults
  /\ prompt = NoPrompt
  /\ escaped = {}
  /\ ExecutorInit
  /\ ThreadsInit

\* the call of _generate_correction_prompt
BuildPrompt ==
  /\ prompt = NoPrompt
  /\ prompt' = GenerateCorrectionPrompt(iteration_result)
  /\ UNCHANGED <<mgrVars, taskVars, obsVars, raceVars, sdVars, hookVars, execVars, iteration_result>>

PromptNext == BuildPrompt

PromptSpec == PromptInit /\ [][PromptNext]_vars

\* ------------------------------------------------------------------------
\* HookSpec: Spec with an update hook that can raise.  _update_status
\* (Task.py 102-106) assigns the status and then calls the hook with no
\* handler of its own, so an exception of the hook goes where an exception
\* of the status write would go: to the handler of initialize() (138-141) or
\* of run() (224-226) when the write is inside their try block, whose last
\* statement calls the hook once more, and out of the coroutine otherwise.
\* An exception that leaves a coroutine submitted to the pool ends in the
\* pool's Future, which nobody reads; one that leaves cancel(), pause() or
\* resume() is raised in the caller by future.result() (TaskManager.py 63).
\* ------------------------------------------------------------------------
Coroutines == {"initialize", "run", "cancel", "pause", "resume"}

\* An exception propagates out of the coroutines cs
Escapes(cs) == escaped' = escaped \cup cs

\* The handler's own hook call (line 141 or 226) raises as well, or not
HandlerHook(cs) == \E again \in BOOLEAN : Escapes(IF again THEN cs ELSE {})

\* initialize() from the pool, the hook raises at line 123: the handler
\* stores the error and writes FAILED; line 126 is not reached
InitializeBeginRaises ==
  \E t \in TaskIds :
    /\ PoolNext("init", t)
    /\ pool' = Taken("init", t)
    /\ error' = [error EXCEPT ![t] = "init"]
    /\ status' = UpdateStatus(t, "FAILED")
    /\ HandlerHook({"initialize"})
    /\ UNCHANGED <<tasks, nextId, nextDict, loop, caller, starts>>
    /\ UNCHANGED <<username, cancelEv, executor, sysPrompt, meta, history>>
    /\ UNCHANGED <<obsVars, raceVars, sdVars, promptVars, execVars>>

\* Lines 126-141 when a hook call raises: with the image read (ok) line 136
\* raises after the executor was replaced, and the handler runs; with the
\* image not read the handler's call of line 141 is the one that raises
InitializeBodyRaises(t, ok, cs) ==
  /\ sysPrompt' = [sysPrompt EXCEPT ![t] = TRUE]
  /\ IF ok
       THEN /\ executor' = [executor EXCEPT ![t] = 1]
            /\ history' = [history EXCEPT ![t] = EmptyHistory]
            /\ HandlerHook(cs)
       ELSE /\ UNCHANGED <<executor, history>>
            /\ Escapes(cs)
  /\ error' = [error EXCEPT ![t] = "init"]
  /\ status' = UpdateStatus(t, "FAILED")

\* initialize() from the pool, the hook raises at line 136 or 141
InitializeEndRaises ==
  /\ loop.kind = "init" /\ loop.pc = "init"
  /\ \E ok \in BOOLEAN : InitializeBodyRaises(loop.task, ok, {"initialize"})
  /\ Returns(loop.by)
  /\ UNCHANGED <<tasks, nextId, nextDict, pool, starts>>
  /\ UNCHANGED <<username, cancelEv, meta>>
  /\ UNCHANGED <<obsVars, raceVars, sdVars, promptVars, execVars>>

\* run() from the pool, the hook raises in its first status write: line 123
\* of the inline initialize() (whose handler writes FAILED; run() returns at
\* line 152 unless the handler's hook call raised too), or line 154, which
\* is outside the try block of run(): RUNNING stays and run() is left
RunBeginRaises ==
  \E t \in TaskIds :
    /\ PoolNext("run", t)
    /\ pool' = Taken("run", t)
    /\ IF NeedsInitialize(t)
         THEN /\ error' = [error EXCEPT ![t] = "init"]
              /\ status' = UpdateStatus(t, "FAILED")
              /\ HandlerHook({"initialize", "run"})
         ELSE /\ status' = UpdateStatus(t, "RUNNING")
              /\ Escapes({"run"})
              /\ UNCHANGED error
    /\ UNCHANGED <<tasks, nextId, nextDict, loop, caller, starts>>
    /\ UNCHANGED <<username, cancelEv, executor, sysPrompt, meta, history>>
    /\ UNCHANGED <<obsVars, raceVars, sdVars, promptVars, execVars>>

\* run(), lines 150-154, a hook call raises: in the inline initialize()
\* (136 or 141), or at line 154 after an initialize() that succeeded
RunInitializeRaises ==
  /\ loop.kind = "run" /\ loop.pc = "run_init"
  /\ \/ \E ok \in BOOLEAN :
          InitializeBodyRaises(loop.task, ok, {"initialize", "run"})
     \/ /\ InitializeBody(loop.task, TRUE)
        /\ status' = UpdateStatus(loop.task, "RUNNING")
        /\ Escapes({"run"})
  /\ RunReturns(loop.task)
  /\ UNCHANGED <<tasks, nextId, nextDict, pool, starts>>
  /\ UNCHANGED <<username, cancelEv, meta>>
  /\ UNCHANGED <<raceVars, sdVars, promptVars, execVars>>

\* run(), the pass of the loop that raises at line 178: the hook call of the
\* handler (line 226) raises
RunLoopBodyRaises ==
  /\ loop.kind = "run" /\ loop.pc = "loop_top"
  /\ LoopCondition(loop.task)
  /\ error' = [error EXCEPT ![loop.task] = "exec"]
  /\ status' = UpdateStatus(loop.task, "FAILED")
  /\ Escapes({"run"})
  /\ RunReturns(loop.task)
  /\ UNCHANGED <<tasks, nextId, nextDict, pool, starts>>
  /\ UNCHANGED <<username, cancelEv, executor, sysPrompt, meta, history>>
  /\ UNCHANGED <<raceVars, sdVars, promptVars, execVars>>

\* run(), lines 216-222, the hook raises in the status write of the loop's
\* exit, which is inside the try block: the handler of 224-226 stores the
\* error and writes FAILED over the status just written
RunLoopExitRaises ==
  /\ loop.kind = "run" /\ loop.pc = "loop_top"
  /\ ~LoopCondition(loop.task)
  /\ error' = [error EXCEPT ![loop.task] = "exec"]
  /\ status' = UpdateStatus(loop.task, "FAILED")
  /\ HandlerHook({"run"})
  /\ RunReturns(loop.task)
  /\ UNCHANGED <<tasks, nextId, nextDict, pool, starts>>
  /\ UNCHANGED <<username, cancelEv, executor, sysPrompt, meta, history>>
  /\ UNCHANGED <<raceVars, sdVars, promptVars, execVars>>

\* cancel(), the hook raises at line 231: cancel_task raises in its caller,
\* and so does a delete_task that called it, before line 243
CancelRaises ==
  /\ CallerNext({"cancel", "delete"})
  /\ cancelEv' = [cancelEv EXCEPT ![caller.task] = TRUE]
  /\ status' = UpdateStatus(caller.task, "CANCELLED")
  /\ Escapes({"cancel"})
  /\ caller' = CallerIdle
  /\ UNCHANGED <<tasks, nextId, nextDict, pool, loop, starts>>
  /\ UNCHANGED <<username, executor, sysPrompt, error, meta, history>>
  /\ UNCHANGED <<obsVars, raceVars, sdVars, promptVars, execVars>>

\* pause(), the hook raises at line 236
PauseRaises ==
  /\ CallerNext({"pause"})
  /\ status[caller.task] = "RUNNING"
  /\ status' = UpdateStatus(caller.task, "PAUSED")
  /\ Escapes({"pause"})
  /\ caller' = CallerIdle
  /\ UNCHANGED <<tasks, nextId, nextDict, pool, loop, starts>>
  /\ UNCHANGED <<username, cancelEv, executor, sysPrompt, error, meta, history>>
  /\ UNCHANGED <<obsVars, raceVars, sdVars, promptVars, execVars>>

\* resume(), the hook raises at line 241, or at line 154 of the run() that
\* line 242 calls (a PAUSED task has its executor and system prompt, so
\* that run() goes to line 154): RUNNING stays either way
ResumeRaises ==
  /\ CallerNext({"resume"})
  /\ status[caller.task] = "PAUSED"
  /\ ~NeedsInitialize(caller.task)
  /\ status' = UpdateStatus(caller.task, "RUNNING")
  /\ \E inRun \in BOOLEAN :
       Escapes(IF inRun THEN {"resume", "run"} ELSE {"resume"})
  /\ caller' = CallerIdle
  /\ UNCHANGED <<tasks, nextId, nextDict, pool, loop, starts>>
  /\ UNCHANGED <<username, cancelEv, executor, sysPrompt, error, meta, history>>
  /\ UNCHANGED <<obsVars, raceVars, sdVars, promptVars, execVars>>

HookNext ==
  \/ Next
  \/ InitializeBeginRaises
  \/ InitializeEndRaises
  \/ RunBeginRaises
  \/ RunInitializeRaises
  \/ RunLoopBodyRaises
  \/ RunLoopExitRaises
  \/ CancelRaises
  \/ PauseRaises
  \/ ResumeRaises

HookSpec == Init /\ [][HookNext]_vars

\* ------------------------------------------------------------------------
\* ExecutorSpec: one TaskExecutor (TaskExecutor.py) whose methods call_api,
\* execute_code, process_feedback and export_excel are called in any order,
\* with every answer of the Model Client, every behaviour of the generated
\* code and every outcome of the Excel writer.  The update hook returns.
\* ------------------------------------------------------------------------
\* The code the Model Client can return, named after what exec() of it
\* does: binds df to a DataFrame, raises, binds no df, binds df to
\* something else
Codes == {"ok", "raises", "no_df", "bad_df"}
BadCodes == Codes \ {"ok"}

\* send_request (line 104) raises, or returns a response with no code
\* (lines 109-111), or returns code
Responses == {"raise", "empty"} \cup Codes

\* IterationResult(generated_code=...) (lines 113-115)
NewResult(code) ==
  [generated_code |-> code, execution_output |-> None, error_message |-> None,
   user_feedback |-> None, dataframe |-> None]

\* The ExecutionState a method returns, by its state
Returned(op, state) == [op |-> op, state |-> state]

\* The method call counted
Called == calls' = calls + 1

\* call_api (93-130).  The record is stored under self.current_iteration,
\* which no method assigns after __init__ (line 58).  On a failure the
\* handler writes the error into the record found under that key, if any.
CallApi ==
  /\ calls < MaxCalls
  /\ \E r \in Responses :
       IF r \in Codes
         THEN /\ iteration_history' =
                   [iteration_history EXCEPT ![current_iteration] = NewResult(r)]
              /\ returned' = Returned("call_api", "CODE_GENERATED")
              /\ generated' = generated + 1
         ELSE /\ iteration_history' =
                   IF iteration_history[current_iteration] # NoRecord
                     THEN [iteration_history EXCEPT
                             ![current_iteration].error_message =
                                Some(<<"generation_failed", r>>)]
                     ELSE iteration_history
              /\ returned' = Returned("call_api", "TASK_FAILED")
              /\ UNCHANGED generated
  /\ Called
  /\ UNCHANGED <<current_iteration, pd_module>>
  /\ UNCHANGED <<mgrVars, taskVars, obsVars, raceVars, sdVars, promptVars, hookVars>>

\* exec(code, ...) and the tests of lines 150-155 accept a df that is any
\* binding at all (no isinstance test)
AnyBindingSucceeds(code) == code \in {"ok", "bad_df"}

\* exec(code, ...) returns, "df" is in local_vars and is a DataFrame
\* (lines 148-155); every other case raises inside the try block
ExecutionSucceeds(code) == code = "ok"

\* exec(code, {"pd": pd}, local_vars), line 148: the two dicts are new in
\* every call, but pd is the one pandas module object of the process, which
\* every call receives.  assigns: the code run sets an attribute of pd (as
\* the statements of any of the kinds above may, before they return or
\* raise); the attribute stays on the module.  Without a record no code runs.
ExecEffect(k, assigns) ==
  IF iteration_history[k] # NoRecord /\ assigns THEN "marked" ELSE pd_module

\* execute_code(iteration) (132-174)
ExecuteCode(k) ==
  /\ calls < MaxCalls
  /\ IF iteration_history[k] = NoRecord
       THEN /\ returned' = Returned("execute_code", "CODE_EXECUTION_ERROR")
            /\ UNCHANGED iteration_history
       ELSE IF ExecutionSucceeds(iteration_history[k].generated_code)
         THEN /\ iteration_history' =
                   [iteration_history EXCEPT
                      ![k].dataframe = Some(<<"df">>),
                      ![k].execution_output = Some(<<"DataFrame successfully created">>)]
              /\ returned' = Returned("execute_code", "CODE_EXECUTION_SUCCESS")
         ELSE /\ iteration_history' =
                   [iteration_history EXCEPT
                      ![k].error_message =
                         Some(<<"execution_failed", iteration_history[k].generated_code>>)]
              /\ returned' = Returned("execute_code", "CODE_EXECUTION_ERROR")
  /\ \E assigns \in BOOLEAN : pd_module' = ExecEffect(k, assigns)
  /\ Called
  /\ UNCHANGED <<current_iteration, generated>>
  /\ UNCHANGED <<mgrVars, taskVars, obsVars, raceVars, sdVars, promptVars, hookVars>>

\* process_feedback(feedback, iteration) (176-188)
ProcessFeedback(k) ==
  /\ calls < MaxCalls
  /\ IF iteration_history[k] = NoRecord
       THEN /\ returned' = Returned("process_feedback", "CODE_EXECUTION_ERROR")
            /\ UNCHANGED iteration_history
       ELSE /\ iteration_history' =
                 [iteration_history EXCEPT ![k].user_feedback = Some(<<"a">>)]
            /\ returned' = Returned("process_feedback", "WAITING_FOR_USER_FEEDBACK")
  /\ Called
  /\ UNCHANGED <<current_iteration, generated, pd_module>>
  /\ UNCHANGED <<mgrVars, taskVars, obsVars, raceVars, sdVars, promptVars, hookVars>>

\* An export_excel without the test of line 199: a record with no
\* dataframe is exported like any other
ExportWithoutArtifact(k) ==
  /\ calls < MaxCalls
  /\ \E written \in BOOLEAN :
       returned' =
         IF iteration_history[k] # NoRecord /\ written
           THEN Returned("export_excel", "EXCEL_EXPORT_SUCCESS")
           ELSE Returned("export_excel", "CODE_EXECUTION_ERROR")
  /\ Called
  /\ UNCHANGED <<iteration_history, current_iteration, generated, pd_module>>
  /\ UNCHANGED <<mgrVars, taskVars, obsVars, raceVars, sdVars, promptVars, hookVars>>

\* export_excel(iteration, output_dir) (190-225); written: to_excel and
\* makedirs raise nothing
ExportExcel(k) ==
  /\ calls < MaxCalls
  /\ \E written \in BOOLEAN :
       returned' =
         IF iteration_history[k] = NoRecord THEN
           Returned("export_excel", "CODE_EXECUTION_ERROR")
         ELSE IF iteration_history[k].dataframe = None THEN
           Returned("export_excel", "CODE_EXECUTION_ERROR")
         ELSE IF written THEN
           Returned("export_excel", "EXCEL_EXPORT_SUCCESS")
         ELSE
           Returned("export_excel", "CODE_EXECUTION_ERROR")
  /\ Called
  /\ UNCHANGED <<iteration_history, current_iteration, generated, pd_module>>
  /\ UNCHANGED <<mgrVars, taskVars, obsVars, raceVars, sdVars, promptVars, hookVars>>

ExecutorNext ==
  \/ CallApi
  \/ \E k \in HistoryKeys : ExecuteCode(k)
  \/ \E k \in HistoryKeys : ProcessFeedback(k)
  \/ \E k \in HistoryKeys : ExportExcel(k)

ExecutorSpec == Init /\ [][ExecutorNext]_vars

\* ------------------------------------------------------------------------
\* ShutdownSpec: one caller creates and starts tasks and then calls
\* shutdown() (TaskManager.py 275-290), with the pool workers and the event
\* loop at the granularity of run_coroutine (50-63) and of the loop's
\* iterations.  asyncio: call_soon_threadsafe appends a callback to the
\* loop's queue (it raises only on a closed loop, and no code closes this
\* one); an iteration of run_forever runs the callbacks that are in the
\* queue when it begins, and run_forever returns at the end of the
\* iteration in which loop.stop() ran.  run_coroutine_threadsafe appends a
\* callback that wraps the coroutine in a task, whose first step is a
\* callback of its own; initialize(), run() and cancel() never yield to the
\* loop, so that step runs the coroutine to its end.
\* ------------------------------------------------------------------------
Callback(cb, kind, t) == [cb |-> cb, kind |-> kind, task |-> t]
StopCallback == Callback("stop", "none", 0)

\* create_task (86-129): register the task, submit initialize() to the pool
SdCreateTask(u) ==
  /\ shut.pc = "idle"
  /\ nextId <= MaxTasks
  /\ tasks' = RegistryInsert(tasks, u, nextId, nextDict)
  /\ nextDict' = IF tasks[u].id = 0 THEN nextDict + 1 ELSE nextDict
  /\ username' = [username EXCEPT ![nextId] = u]
  /\ nextId' = nextId + 1
  /\ workers' = [workers EXCEPT ![[kind |-> "init", task |-> nextId]] = "queued"]
  /\ UNCHANGED <<pool, loop, caller, starts>>
  /\ UNCHANGED <<status, cancelEv, executor, sysPrompt, error, meta, history>>
  /\ UNCHANGED <<ready, ntodo, stopping, alive, running, shut>>
  /\ UNCHANGED <<obsVars, raceVars, promptVars, hookVars, execVars>>

\* start_task (131-147), called once for a task: submit run() to the pool
SdStartTask(u, t) ==
  /\ shut.pc = "idle"
  /\ ValidateTask(u, t)
  /\ workers[[kind |-> "run", task |-> t]] = "none"
  /\ workers' = [workers EXCEPT ![[kind |-> "run", task |-> t]] = "queued"]
  /\ UNCHANGED <<mgrVars, taskVars>>
  /\ UNCHANGED <<ready, ntodo, stopping, alive, running, shut>>
  /\ UNCHANGED <<obsVars, raceVars, promptVars, hookVars, execVars>>

\* A pool worker begins _run_async for its item: run_coroutine, lines
\* 59-60, raises RuntimeError when _running is clear, which ends the item
WorkerChecks(w) ==
  /\ workers[w] = "queued"
  /\ workers' = [workers EXCEPT ![w] = IF running THEN "checked" ELSE "raised"]
  /\ UNCHANGED <<mgrVars, taskVars>>
  /\ UNCHANGED <<ready, ntodo, stopping, alive, running, shut>>
  /\ UNCHANGED <<obsVars, raceVars, promptVars, hookVars, execVars>>

\* run_coroutine, lines 62-63: hand the coroutine to the loop, whether
\* the loop still runs or not, and wait in future.result()
WorkerHandsOver(w) ==
  /\ workers[w] = "checked"
  /\ workers' = [workers EXCEPT ![w] = "waiting"]
  /\ ready' = Append(ready, Callback("handoff", w.kind, w.task))
  /\ UNCHANGED <<mgrVars, taskVars>>
  /\ UNCHANGED <<ntodo, stopping, alive, running, shut>>
  /\ UNCHANGED <<obsVars, raceVars, promptVars, hookVars, execVars>>

\* The loop thread begins an iteration with the callbacks now in the queue
LoopIteration ==
  /\ alive /\ ntodo = 0 /\ ready # <<>>
  /\ ntodo' = Len(ready)
  /\ UNCHANGED <<mgrVars, taskVars>>
  /\ UNCHANGED <<workers, ready, stopping, alive, running, shut>>
  /\ UNCHANGED <<obsVars, raceVars, promptVars, hookVars, execVars>>

\* The iteration has run its last callback: run_forever returns when
\* loop.stop() has run, and the thread ends
IterationEnds(stops) ==
  /\ ntodo' = ntodo - 1
  /\ stopping' = stops
  /\ alive' = ~(ntodo = 1 /\ stops)

\* The thread that waits in future.result() for the coroutine goes on
Completes(kind, t) ==
  IF kind = "cancel"
    THEN /\ shut' = [shut EXCEPT !.pc = "cancel", !.waits = 0]
         /\ UNCHANGED workers
    ELSE /\ workers' = [workers EXCEPT ![[kind |-> kind, task |-> t]] = "done"]
         /\ UNCHANGED shut

\* initialize() (120-142) run to its end
InitializeEffect(t, ok) ==
  /\ InitializeBody(t, ok)
  /\ status' = UpdateStatus(t, IF ok THEN "CREATED" ELSE "FAILED")
  /\ UNCHANGED <<cancelEv, meta>>

\* run() (144-226) run to its end: the inline initialize() when needed
\* (149-152), RUNNING (154), then the exit of a loop that is not entered
\* (157-160, 216-222) or the first pass, which raises at line 178 (224-226)
RunEffect(t, ok) ==
  LET failsInit == NeedsInitialize(t) /\ ~ok
      created == NeedsInitialize(t) /\ ok
  IN  /\ sysPrompt' = [sysPrompt EXCEPT ![t] = TRUE]
      /\ executor' = IF created THEN [executor EXCEPT ![t] = 1] ELSE executor
      /\ history' = IF created THEN [history EXCEPT ![t] = EmptyHistory] ELSE history
      /\ error' = IF failsInit THEN [error EXCEPT ![t] = "init"]
                  ELSE IF LoopCondition(t) THEN [error EXCEPT ![t] = "exec"]
                  ELSE error
      /\ status' = UpdateStatus(t,
                     IF failsInit \/ LoopCondition(t) THEN "FAILED"
                     ELSE IF cancelEv[t] THEN "CANCELLED"
                     ELSE IF meta[t].current_iteration >= MaxIterations THEN "FAILED"
                     ELSE "RUNNING")
      /\ UNCHANGED <<cancelEv, meta>>

\* cancel() (228-231) run to its end
CancelEffect(t) ==
  /\ cancelEv' = [cancelEv EXCEPT ![t] = TRUE]
  /\ status' = UpdateStatus(t, "CANCELLED")
  /\ UNCHANGED <<executor, sysPrompt, error, meta, history>>

\* The loop thread runs the oldest callback of its iteration
LoopCallback ==
  /\ alive /\ ntodo > 0
  /\ LET c == Head(ready)
     IN  \/ /\ c.cb = "handoff"
            /\ ready' = Append(Tail(ready), Callback("step", c.kind, c.task))
            /\ IterationEnds(stopping)
            /\ UNCHANGED <<workers, shut, taskVars>>
         \/ /\ c.cb = "step"
            /\ ready' = Tail(ready)
            /\ \E ok \in BOOLEAN :
                 CASE c.kind = "init" -> InitializeEffect(c.task, ok)
                   [] c.kind = "run" -> RunEffect(c.task, ok)
                   [] OTHER -> CancelEffect(c.task)
            /\ Completes(c.kind, c.task)
            /\ IterationEnds(stopping)
            /\ UNCHANGED username
         \/ /\ c.cb = "stop"
            /\ ready' = Tail(ready)
            /\ IterationEnds(TRUE)
            /\ UNCHANGED <<workers, shut, taskVars>>
  /\ UNCHANGED <<mgrVars, running>>
  /\ UNCHANGED <<obsVars, raceVars, promptVars, hookVars, execVars>>

\* shutdown(), lines 281-282: the lists of the registry's keys are taken
ShutdownBegins ==
  /\ shut.pc = "idle"
  /\ shut' = [pc |-> "cancel", waits |-> 0,
              todo |-> UNION {tasks[u].keys : u \in Users}]
  /\ UNCHANGED <<mgrVars, taskVars>>
  /\ UNCHANGED <<workers, ready, ntodo, stopping, alive, running>>
  /\ UNCHANGED <<obsVars, raceVars, promptVars, hookVars, execVars>>

\* shutdown(), line 283: cancel_task (160-165) hands cancel() to the loop
\* and waits for it
ShutdownCancels(t) ==
  /\ shut.pc = "cancel" /\ t \in shut.todo
  /\ shut' = [pc |-> "cancel_wait", waits |-> t, todo |-> shut.todo \ {t}]
  /\ ready' = Append(ready, Callback("handoff", "cancel", t))
  /\ UNCHANGED <<mgrVars, taskVars>>
  /\ UNCHANGED <<workers, ntodo, stopping, alive, running>>
  /\ UNCHANGED <<obsVars, raceVars, promptVars, hookVars, execVars>>

\* shutdown(), line 286: stop() (44-48) hands loop.stop to the loop and
\* clears _running
ShutdownStops ==
  /\ shut.pc = "cancel" /\ shut.todo = {}
  /\ ready' = Append(ready, StopCallback)
  /\ running' = FALSE
  /\ shut' = [shut EXCEPT !.pc = "join"]
  /\ UNCHANGED <<mgrVars, taskVars>>
  /\ UNCHANGED <<workers, ntodo, stopping, alive>>
  /\ UNCHANGED <<obsVars, raceVars, promptVars, hookVars, execVars>>

\* shutdown(), line 287: join() returns when the loop thread has ended
ShutdownJoins ==
  /\ shut.pc = "join" /\ ~alive
  /\ shut' = [shut EXCEPT !.pc = "pool"]
  /\ UNCHANGED <<mgrVars, taskVars>>
  /\ UNCHANGED <<workers, ready, ntodo, stopping, alive, running>>
  /\ UNCHANGED <<obsVars, raceVars, promptVars, hookVars, execVars>>

\* No submitted item is queued or in the hands of a worker
PoolDrained == \A w \in WorkItems : workers[w] \in {"none", "done", "raised"}

\* shutdown(), line 290: ThreadPoolExecutor.shutdown(wait=True) returns
\* when every submitted item has been run and its worker has ended
ShutdownReturns ==
  /\ shut.pc = "pool" /\ PoolDrained
  /\ shut' = [shut EXCEPT !.pc = "returned"]
  /\ UNCHANGED <<mgrVars, taskVars>>
  /\ UNCHANGED <<workers, ready, ntodo, stopping, alive, running>>
  /\ UNCHANGED <<obsVars, raceVars, promptVars, hookVars, execVars>>

\* The steps of the threads, as opposed to the calls the caller may make
ThreadsNext ==
  \/ \E w \in WorkItems : WorkerChecks(w)
  \/ \E w \in WorkItems : WorkerHandsOver(w)
  \/ LoopIteration
  \/ LoopCallback
  \/ \E t \in TaskIds : ShutdownCancels(t)
  \/ ShutdownStops
  \/ ShutdownJoins
  \/ ShutdownReturns

ShutdownNext ==
  \/ \E u \in Owners : SdCreateTask(u)
  \/ \E u \in Owners, t \in TaskIds : SdStartTask(u, t)
  \/ ShutdownBegins
  \/ ThreadsNext

\* Every thread that can take a step takes one: the operating system runs
\* the pool workers, the loop thread and the caller of shutdown()
ShutdownSpec == Init /\ [][ShutdownNext]_vars /\ WF_vars(ThreadsNext)

\* ------------------------------------------------------------------------
\* Properties
\* ------------------------------------------------------------------------
\* The task is in the registry
Registered(t) == \E u \in Users : t \in tasks[u].keys

\* delete_task has returned True for the task (Spec: create_task registers a
\* task in the step that creates it)
Deleted(t) == t < nextId /\ ~Registered(t)

\* cancel_task has returned True for the task
CancelReturned(t) == cancelEv[t] /\ caller = CallerIdle

\* C1: terminal states are absorbing: once a task's status is COMPLETED,
\* FAILED or CANCELLED, no step gives it a different value.
C1_TerminalAbsorbing ==
  [][\A t \in TaskIds : status[t] \in Terminal => status'[t] = status[t]]_vars

\* C2: once cancel_task has returned for a task, every read of its status
\* gives CANCELLED.
C2_CancelledStays ==
  \A t \in TaskIds : CancelReturned(t) => status[t] = "CANCELLED"

\* C5: at most one run loop of a task is active at any time, whatever the
\* start_task and resume() calls made on it.
C5_OneRunLoop == \A t \in TaskIds : active[t] <= 1

\* C5, its case: start_task was accepted twice for one task, its second
\* run() is executing and the first has returned.
C5_Witness ==
  \E t \in TaskIds :
    /\ starts = 2 /\ active[t] = 1 /\ loop.kind = "run" /\ loop.task = t
    /\ pool[[kind |-> "run", task |-> t]] = 0

\* C7: the step that removes a task whose status is not terminal from the
\* registry finds the task's cancellation signal set.
C7_CancelBeforeRemoval ==
  [][\A t \in TaskIds :
       (Registered(t) /\ ~Registered(t)' /\ status[t] \notin Terminal)
         => cancelEv[t]]_vars

\* C8: after delete_task has returned True for a task, no step changes the
\* task's status, metadata or iteration history.
C8_QuietAfterDelete ==
  [][\A t \in TaskIds :
       Deleted(t) => /\ status'[t] = status[t]
                     /\ meta'[t] = meta[t]
                     /\ history'[t] = history[t]]_vars

\* C10: a run() that returns, on a task never cancelled and whose image
\* could be read, with collaborators that fail nothing, leaves COMPLETED
\* after exactly one iteration (the file reference is part of the COMPLETED
\* status message, line 201).
C10_HappyPathCompletes ==
  [][\A t \in TaskIds :
       (active'[t] < active[t] /\ ~cancelEv[t] /\ error'[t] # "init")
         => /\ status'[t] = "COMPLETED"
            /\ meta'[t].total_iterations = 1]_vars

\* The tasks the registry holds
RegistryKeys == UNION {tasks[u].keys : u \in Users}

\* C6: when all concurrent create_task and delete_task calls have returned,
\* none has raised and the registry holds exactly the tasks created and not
\* deleted.
C6_RegistryExact ==
  (\A i \in Threads : thr[i] = ThreadIdle)
    => raised = {} /\ RegistryKeys = inserted \ removed

\* A run() of the task returns in this step, the task was never cancelled
\* and its image could be read
RunReturnsUncancelled(t) ==
  active'[t] < active[t] /\ ~cancelEv[t] /\ error'[t] # "init"

\* C11: with a generation that succeeds and a Code Runner that fails on
\* every call, a run() leaves FAILED with error_count = max_iterations and
\* an IterationResult for each of the iterations 1..max_iterations.
C11_RunnerAlwaysFails ==
  [][\A t \in TaskIds :
       RunReturnsUncancelled(t)
         => /\ status'[t] = "FAILED"
            /\ meta'[t].error_count = MaxIterations
            /\ \A k \in 1..MaxIterations : history'[t][k] # NoRecord]_vars

RegisteredUnder(u, t) == tasks[u].id > 0 /\ t \in tasks[u].keys

\* A call of start_task, cancel_task or provide_feedback by u on t that the
\* Manager takes in this step
ControlCall(u, t) == StartTask(u, t) \/ CancelTask(u, t) \/ ProvideFeedback(u, t)

\* C13: start_task, cancel_task and provide_feedback on a task whose status
\* is COMPLETED, FAILED or CANCELLED return False, submit no work to the
\* scheduler and leave the task's status, metadata, cancellation signal and
\* iteration history unchanged.
C13_TerminalRejected ==
  [][\A u \in Users, t \in TaskIds :
       (RegisteredUnder(u, t) /\ status[t] \in Terminal /\ ControlCall(u, t))
         => /\ ~StartTaskResult(u, t)
            /\ ~CancelTaskResult(u, t)
            /\ ~ProvideFeedbackResult(u, t)
            /\ UNCHANGED <<pool, caller, starts>>
            /\ UNCHANGED <<status, meta, cancelEv, history>>]_vars

\* A call of the Manager's API by u on t that the Manager takes in this step
ManagerCall(u, t) ==
  \/ ControlCall(u, t)
  \/ DeleteTask(u, t)
  \/ GetTaskStatus(u, t)

\* C14: for every (owner, task_id) pair not registered under that owner,
\* a task_id of a different owner and a deleted task_id included,
\* get_task_status returns None, start_task, cancel_task, provide_feedback
\* and delete_task return False, and the call changes neither the registry
\* nor any task's state.
C14_UnregisteredRejected ==
  /\ [](\A u \in Users, t \in TaskIds :
          ~RegisteredUnder(u, t)
            => /\ GetTaskStatusResult(u, t) = NotFound
               /\ ~StartTaskResult(u, t)
               /\ ~CancelTaskResult(u, t)
               /\ ~ProvideFeedbackResult(u, t)
               /\ ~DeleteTaskResult(u, t))
  /\ [][\A u \in Users, t \in TaskIds :
          (~RegisteredUnder(u, t) /\ ManagerCall(u, t)) => UNCHANGED vars]_vars

\* C14, its case: a task registered under one owner is asked for by another
\* user, whose calls are all rejected
C14_Witness ==
  \E u, v \in Users, t \in TaskIds :
    /\ u # v /\ RegisteredUnder(v, t) /\ ~RegisteredUnder(u, t)
    /\ status[t] = "FAILED" /\ caller = CallerIdle
    /\ GetTaskStatusResult(u, t) = NotFound
    /\ GetTaskStatusResult(v, t) # NotFound
    /\ ~StartTaskResult(u, t) /\ ~DeleteTaskResult(u, t)

\* C16: a generation failure in an iteration before the last does not make
\* the task FAILED: a run() that returns FAILED, not cancelled and with its
\* image read, has used up all max_iterations iterations (whatever the Model
\* Client answers, a failure on every call included).
C16_FailedOnlyWhenExhausted ==
  [][\A t \in TaskIds :
       (RunReturnsUncancelled(t) /\ status'[t] = "FAILED")
         => meta'[t].current_iteration >= MaxIterations]_vars

\* The text x occurs in the text s from position i on
OccursAt(s, x, i) ==
  /\ i + Len(x) - 1 <= Len(s)
  /\ \A k \in 1..Len(x) : s[i + k - 1] = x[k]

\* The prompt has been built from a record with both fields present
BothPresent ==
  /\ prompt # NoPrompt
  /\ iteration_result.error_message.present
  /\ iteration_result.user_feedback.present

\* C19: the correction prompt built from an IterationResult in which
\* error_message and user_feedback are both present contains both texts,
\* the error text before the feedback text.
C19_ErrorBeforeFeedback ==
  BothPresent
    => \E i, j \in 1..(Len(prompt) + 1) :
         /\ OccursAt(prompt, iteration_result.error_message.text, i)
         /\ OccursAt(prompt, iteration_result.user_feedback.text, j)
         /\ i + Len(iteration_result.error_message.text) <= j

\* C19, its case: a prompt built from a record with two different non-empty
\* texts, the feedback containing a newline as the prompt's own lines do
C19_Witness ==
  /\ BothPresent
  /\ iteration_result.error_message.text = <<"a", "b">>
  /\ iteration_result.user_feedback.text = <<"nl", "a">>
  /\ Truthy(iteration_result.execution_output)

\* C20: under fairness, every run() that has begun returns, and it returns
\* with the task in a terminal status (never RUNNING or INITIALIZING) and
\* with no more than max_iterations generate attempts counted.
C20_RunTerminates ==
  /\ \A t \in TaskIds : (active[t] > 0) ~> (active[t] = 0)
  /\ [][\A t \in TaskIds :
          active'[t] < active[t]
            => /\ status'[t] \in Terminal
               /\ meta'[t].total_iterations <= MaxIterations]_vars

\* C20, its case: every run() that start_task submitted has begun and
\* returned, the last one through the handler of lines 224-226
C20_Witness ==
  \E t \in TaskIds :
    /\ starts = MaxStarts /\ pool[[kind |-> "run", task |-> t]] = 0
    /\ active[t] = 0 /\ loop = Idle
    /\ status[t] = "FAILED" /\ error[t] = "exec"

\* C15: a failure of the update hook does not abort the task: no exception
\* of the hook propagates out of initialize(), run() or cancel().
C15_HookFailureContained ==
  escaped \cap {"initialize", "run", "cancel"} = {}

C22_CancelledBeforeRun ==
  [][\A t \in TaskIds :
       (active'[t] < active[t] /\ cancelEv[t]) => status'[t] = "CANCELLED"]_vars

\* C23: cancel() changes nothing but the cancellation signal: the task's
\* status, metadata, last error and iteration history are as before.
C23_CancelSignalOnly ==
  [][Cancel => UNCHANGED <<status, meta, error, history>>]_vars

\* The step is taken by the event-loop thread: a coroutine handed over by
\* run_coroutine_threadsafe (TaskManager.py 59-63) begins or goes on
LoopThreadStep ==
  \/ InitializeBegin \/ InitializeEnd
  \/ RunBegin \/ RunInitialize \/ RunLoopBody \/ RunLoopExit
  \/ Cancel \/ Pause \/ Resume \/ Feedback

\* The step is taken by the thread that called the Manager (or that holds
\* the coroutine of a pause() or resume())
CallerThreadStep ==
  \/ \E u \in Users : CreateTask(u)
  \/ \E u \in Users, t \in TaskIds : ManagerCall(u, t)
  \/ DeleteFinish
  \/ \E t \in TaskIds : TaskCoroutine(t, "pause") \/ TaskCoroutine(t, "resume")

\* C24: single-writer discipline: every write to the status or the metadata
\* of a constructed task is a step of the event-loop thread; the steps of
\* the caller's thread write neither.
C24_SingleWriter ==
  [][/\ (status' # status \/ meta' # meta) => LoopThreadStep
     /\ CallerThreadStep => UNCHANGED <<status, meta>>]_vars

\* C24, its case: the task's status was written by a run() and then by a
\* cancel(), both requested through the Manager, and cancel_task returned
C24_Witness ==
  \E t \in TaskIds :
    /\ starts > 0 /\ active[t] = 0 /\ error[t] = "exec"
    /\ cancelEv[t] /\ status[t] = "CANCELLED" /\ caller = CallerIdle

\* The keys of the TaskExecutor's history that hold a record
RecordKeys == {k \in HistoryKeys : iteration_history[k] # NoRecord}

\* C25: the history holds exactly one record per successful generation, and
\* no later generation replaces or removes the generated_code of a record.
C25_OneRecordPerGeneration ==
  /\ [](Cardinality(RecordKeys) = generated)
  /\ [][\A k \in RecordKeys :
          /\ iteration_history'[k] # NoRecord
          /\ iteration_history'[k].generated_code
               = iteration_history[k].generated_code]_vars

\* The step is a call_api that returns TASK_FAILED
CallApiFails == CallApi /\ returned'.state = "TASK_FAILED"

\* C28: a failed generation returns a failure signal and changes nothing
\* else: no record is added, no field of a record is modified, and
\* current_iteration is not advanced.
C28_FailedGenerationNoEffect ==
  [][CallApiFails => UNCHANGED <<iteration_history, current_iteration>>]_vars

C31_ArtifactOnlyAfterSuccess ==
  /\ [](\A k \in RecordKeys :
          iteration_history[k].dataframe # None
            => /\ iteration_history[k].generated_code = "ok"
               /\ Truthy(iteration_history[k].execution_output))
  /\ [][\A k \in HistoryKeys :
          (ExportExcel(k) /\ returned'.state = "EXCEL_EXPORT_SUCCESS")
            => /\ iteration_history[k] # NoRecord
               /\ iteration_history[k].dataframe # None]_vars

\* C31, its case: a record whose code was executed with success has been
\* exported
C31_Witness ==
  /\ returned = Returned("export_excel", "EXCEL_EXPORT_SUCCESS")
  /\ \E k \in RecordKeys : iteration_history[k].dataframe = Some(<<"df">>)

\* The step creates a TaskExecutor for the task (Task.py 129-133, reached
\* from the pool's initialize() or from the initialize() run() calls)
ExecutorCreated(t) ==
  /\ loop.task = t
  /\ \/ InitializeEnd /\ status'[t] = "CREATED"
     \/ RunInitialize /\ status'[t] = "RUNNING"

\* The step is one of the initialize() that create_task submitted
PoolInitializeStep(t) ==
  \/ InitializeBegin /\ loop'.task = t
  \/ InitializeEnd /\ loop.task = t

\* C32: a task has one executor for its whole life: no step creates an
\* executor for a task that has one, and the initialize() submitted by
\* create_task does not set the status of a task whose run() has ended its
\* loop back to INITIALIZING or CREATED.
C32_OneExecutor ==
  [][\A t \in TaskIds :
       /\ executor[t] = 1 => ~ExecutorCreated(t)
       /\ (error[t] = "exec" /\ PoolInitializeStep(t))
            => status'[t] \notin {"INITIALIZING", "CREATED"}]_vars

\* The step ends an initialize() of the task that could not read the image,
\* the task having no executor before or after
InitializeFails(t) ==
  /\ loop.task = t /\ (InitializeEnd \/ RunInitialize)
  /\ executor[t] = 0 /\ executor'[t] = 0

\* C33: a failing initialize() leaves FAILED with the error stored, and a
\* run() that called it returns at once: RUNNING is not entered and the
\* metadata and the history are as before (no generate, execute or export).
C33_InitializeFailure ==
  [][\A t \in TaskIds :
       InitializeFails(t)
         => /\ status'[t] = "FAILED" /\ error'[t] = "init"
            /\ meta'[t] = meta[t] /\ history'[t] = history[t]
            /\ loop' = Idle
            /\ RunInitialize => active'[t] < active[t]]_vars

\* C33, its case: the run() submitted by start_task ran initialize(), which
\* failed, and returned
C33_Witness ==
  \E t \in TaskIds :
    /\ starts = 1 /\ pool[[kind |-> "run", task |-> t]] = 0
    /\ pool[[kind |-> "init", task |-> t]] = 1
    /\ active[t] = 0 /\ loop = Idle
    /\ status[t] = "FAILED" /\ error[t] = "init" /\ executor[t] = 0

MaxRegistryTasks == 4
RegistryIds == 1..MaxRegistryTasks

\* create_task, lines 105 and 122-124: a fresh id, registered under u
RegistryCreateTask(u) ==
  /\ nextId <= MaxRegistryTasks
  /\ tasks' = RegistryInsert(tasks, u, nextId, nextDict)
  /\ nextDict' = IF tasks[u].id = 0 THEN nextDict + 1 ELSE nextDict
  /\ nextId' = nextId + 1
  /\ UNCHANGED <<pool, loop, caller, starts, taskVars, obsVars, restVars>>

\* delete_task, lines 236-247: False for an unknown pair, else the task is
\* removed and with the last one the owner's mapping
RegistryDeleteTask(u, t) ==
  /\ tasks' = IF ValidateTask(u, t) THEN RegistryDelete(tasks, u, t) ELSE tasks
  /\ UNCHANGED <<nextId, nextDict, pool, loop, caller, starts>>
  /\ UNCHANGED <<taskVars, obsVars, restVars>>

RegistryNext ==
  \/ \E u \in Users : RegistryCreateTask(u)
  \/ \E u \in Users, t \in RegistryIds : RegistryDeleteTask(u, t)

RegistrySpec == Init /\ [][RegistryNext]_vars

\* C40: the registry never holds an owner with an empty mapping, and a
\* delete_task of a registered task removes that task and no other: the
\* owner's other tasks stay in the same mapping, the owner's entry goes with
\* the last task, and every other owner's entry is as before.
C40_RegistryShape ==
  /\ [](\A u \in Users : tasks[u].id > 0 => tasks[u].keys # {})
  /\ [][\A u \in Users, t \in RegistryIds :
          (ValidateTask(u, t) /\ RegistryDeleteTask(u, t))
            => /\ tasks'[u].keys = tasks[u].keys \ {t}
               /\ tasks'[u].id = IF tasks[u].keys = {t} THEN 0 ELSE tasks[u].id
               /\ \A v \in Users \ {u} : tasks'[v] = tasks[v]]_vars

\* C40, its case: four tasks were created for the two owners; one owner
\* lost all its tasks and its entry, the other lost one task of two
C40_Witness ==
  \E u \in Users, v \in Users :
    /\ u # v /\ nextId = MaxRegistryTasks + 1
    /\ tasks[u] = NoDict /\ nextDict = 3
    /\ tasks[v].id > 0 /\ Cardinality(tasks[v].keys) = 1

\* The prompt has a section under the heading
HasHeading(heading) == \E i \in 1..Len(prompt) : prompt[i] = heading

\* The prompt has the field's text on the lines under the heading
SectionFor(heading, o) ==
  \E i \in 1..Len(prompt) :
    OccursAt(prompt, <<heading, "nl">> \o o.text \o <<"nl">>, i)

\* The prompt ends with the numbered lines of the four requirements
EndsWith(reqs) ==
  /\ Len(prompt) >= 2 * Len(reqs)
  /\ \A n \in 1..Len(reqs) :
       LET i == Len(prompt) - 2 * (Len(reqs) - n) - 1
       IN  prompt[i] = reqs[n] /\ prompt[i + 1] = "nl"

\* The three optional fields with the headings of their sections
Sections ==
  {<<"error:", iteration_result.error_message>>,
   <<"feedback:", iteration_result.user_feedback>>,
   <<"output:", iteration_result.execution_output>>}

\* C35 as amended: for every combination of the three fields the prompt has
\* a section for exactly the fields that hold a non-empty text, with that
\* text under the heading, and ends with the four requirements of the code
\* (correct DataFrame, typed columns, cleaned and formatted data, result
\* bound to 'df').
C35_SectionsOfNonEmptyFields ==
  prompt # NoPrompt
    => /\ \A sec \in Sections :
            /\ HasHeading(sec[1]) <=> Truthy(sec[2])
            /\ Truthy(sec[2]) => SectionFor(sec[1], sec[2])
       /\ EndsWith(FourRequirements)

\* C35, its case: a prompt built from a record with an error, an output and
\* no feedback
C35_Witness ==
  /\ prompt # NoPrompt
  /\ Truthy(iteration_result.error_message)
  /\ ~iteration_result.user_feedback.present
  /\ Truthy(iteration_result.execution_output)

\* C35 as stated: the prompt has a section for exactly the fields that are
\* present (not None), and ends with the four requirements typed columns,
\* cleaned and formatted data, output binding name, no truncation.
C35_SectionsOfPresentFields ==
  prompt # NoPrompt
    => /\ \A sec \in Sections :
            /\ HasHeading(sec[1]) <=> sec[2].present
            /\ sec[2].present => SectionFor(sec[1], sec[2])
       /\ EndsWith(<<"typed_columns", "cleaned_formatted", "result_in_df", "no_truncation">>)

\* C38: running a code string leaves nothing that a later invocation
\* receives and changes no orchestration state: an execute_code step
\* leaves the objects handed to the next exec as they were, changes no
\* record but the one it was called for, and changes nothing of the tasks
\* or the registry.
C38_RunnerIsolated ==
  [][\A k \in HistoryKeys :
       ExecuteCode(k)
         => /\ pd_module' = pd_module
            /\ \A j \in HistoryKeys \ {k} : iteration_history'[j] = iteration_history[j]
            /\ UNCHANGED <<mgrVars, taskVars>>]_vars

\* C36: a shutdown() that has been called returns, and it returns with
\* every task it found registered cancelled, the loop thread ended and no
\* work left in the pool.
C36_ShutdownTerminates ==
  /\ (shut.pc # "idle") ~> (shut.pc = "returned")
  /\ [](shut.pc = "returned"
          => /\ \A u \in Users : \A t \in tasks[u].keys : cancelEv[t]
             /\ ~alive
             /\ PoolDrained)

====
